---- MODULE Spec2Model ----
(***************************************************************************)
(* Capacity-aware scheduler extender of 101_distributed_scheduling.        *)
(*                                                                         *)
(* The extender is the Go program listed in README.md (lines 180-396): the *)
(* /filter and /prioritize HTTP handlers, ScheduleExtender.Filter,         *)
(* ScheduleExtender.Prioritize, getWorkloadReplicas, isOnDemandNode,       *)
(* isSpotNode, isNodeReady and getWorkloadPodsOnNode.  The cluster (nodes, *)
(* pods, ReplicaSets, Deployments, StatefulSets, API availability) is the  *)
(* environment the extender reads through its clientset.                   *)
(*                                                                         *)
(* A handler runs as one step: it reads the cluster, computes the result   *)
(* and leaves it in `response` until the host has taken it (Respond).      *)
(* The cluster changes between handler runs.  Where calls overlap          *)
(* (SpecConcurrent) a call is accepted, waits for the answers to its API   *)
(* requests, and writes its response, each in a step of its own.           *)
(*                                                                         *)
(* The capacity-loss reaction controller is the Go program listed in       *)
(* src/custom-controller/new.md (lines 392-461): the node informer's       *)
(* UpdateFunc, isTerminating and handleNodeTermination.  Its loop over the *)
(* listed pods is one step per eviction request, so that the cluster can   *)
(* change between two requests.                                            *)
(***************************************************************************)
EXTENDS Integers, Sequences, FiniteSets, TLC

(***************************************************************************)
(* Bounds of the model.                                                    *)
(***************************************************************************)
MaxNodes == 2
MaxReplicas == 2
MaxOwnerRefs == 2
MaxEvents == 1
MaxUnits == 11
MaxCalls == 2

(***************************************************************************)
(* Program constants.                                                      *)
(***************************************************************************)
NodeLabel == "node.kubernetes.io/capacity"
DefaultReplicaSet == 1

\* k8s.io/api/core/v1 condition types and statuses used by the program.
NodeReady == "Ready"
ConditionTrue == "True"
ConditionFalse == "False"
ConditionUnknown == "Unknown"

(***************************************************************************)
(* Data.  A label map is a set of <<key, value>> pairs with distinct keys. *)
(***************************************************************************)
NodeNames == 1..MaxNodes
NoNode == 0
None == [verb |-> "none"]
Nil == [nil |-> TRUE]
NoStatus == 0
StatusOK == 200
StatusBadRequest == 400
StatusInternalServerError == 500
NoEvent == [old |-> None, new |-> None]
Idle ==
  [event |-> NoEvent, node |-> NoNode, listErr |-> FALSE,
   enumerated |-> <<>>, todo |-> <<>>, issued |-> <<>>]

HasKey(labels, key) == \E kv \in labels : kv[1] = key

\* Go map lookup: the zero value "" when the key is absent.
Lookup(labels, key) ==
  IF HasKey(labels, key) THEN (CHOOSE kv \in labels : kv[1] = key)[2] ELSE ""

Cond(type, status) == [Type |-> type, Status |-> status]

\* Capacity label sets a node can carry: no capacity label, the two
\* recognised values, and a value outside the known set.
NodeLabelSets ==
  {{}} \cup {{<<NodeLabel, v>>} : v \in {"on-demand", "spot", "reserved"}}

\* Condition lists a node can report.
ConditionLists ==
  { <<>>,
    <<Cond(NodeReady, ConditionTrue)>>,
    <<Cond(NodeReady, ConditionFalse)>>,
    <<Cond("MemoryPressure", ConditionTrue), Cond(NodeReady, ConditionUnknown)>>,
    <<Cond("MemoryPressure", ConditionFalse), Cond(NodeReady, ConditionTrue)>> }

OwnerRef(kind, name, controller) ==
  [Kind |-> kind, Name |-> name, Controller |-> controller]

PodObj(name, ns, labels, owners, nodeName) ==
  [Name |-> name, Namespace |-> ns, Labels |-> labels,
   OwnerReferences |-> owners, NodeName |-> nodeName]

\* Sequences over S of length at most n.
RECURSIVE SeqsUpTo(_, _)
SeqsUpTo(S, n) ==
  IF n = 0 THEN {<<>>}
  ELSE LET shorter == SeqsUpTo(S, n - 1)
       IN shorter \cup {Append(s, x) : s \in {t \in shorter : Len(t) = n - 1}, x \in S}

\* Candidate lists the host can send: distinct nodes, any order, any subset.
CandidateLists ==
  {s \in SeqsUpTo(NodeNames, MaxNodes) :
     \A i, j \in 1..Len(s) : i # j => s[i] # s[j]}

VARIABLES
  nodes,         \* node name -> v1.Node (Name, Labels, Status.Conditions)
  pods,          \* set of v1.Pod objects in the cluster
  replicaSets,   \* set of ReplicaSet objects
  deployments,   \* set of Deployment objects
  statefulSets,  \* set of StatefulSet objects
  unavailable,   \* API resources whose requests currently fail
  response,      \* the last handler's result, until the host takes it
  pdbs,          \* set of PodDisruptionBudget objects
  events,        \* node update notifications the informer has not delivered yet
  workflow,      \* the controller's last UpdateFunc call and its position
  listFails,     \* nodes whose pod list requests currently fail
  inflight,      \* handler calls that have been accepted and not yet answered
  hanging        \* API resources whose requests are currently not answered

\* The state of the reaction controller and of what only it consults.
controller == <<pdbs, events, workflow>>

\* What a handler call meets besides the cluster's objects.
requests == <<listFails, inflight, hanging>>

vars == <<nodes, pods, replicaSets, deployments, statefulSets, unavailable, response,
          pdbs, events, workflow, listFails, inflight, hanging>>

\* The view of the cluster the clientset gives a handler.
clientset ==
  [ReplicaSets |-> replicaSets, Deployments |-> deployments,
   StatefulSets |-> statefulSets, Pods |-> pods, unavailable |-> unavailable,
   listFails |-> listFails]

(***************************************************************************)
(* API reads.  A Get fails when the resource is unavailable (transient     *)
(* error) or the object does not exist (not found).                        *)
(***************************************************************************)
Get(store, resource, cs, ns, name) ==
  IF resource \in cs.unavailable
       \/ ~\E o \in store : o.Namespace = ns /\ o.Name = name
  THEN [err |-> TRUE]
  ELSE [err |-> FALSE,
        obj |-> CHOOSE o \in store : o.Namespace = ns /\ o.Name = name]

(***************************************************************************)
(* Node classifier.                                                        *)
(***************************************************************************)
\* Faulty variant: the presence of the capacity label alone counts as
\* on-demand, whatever its value.
isOnDemandNodeAnyValue(node) == HasKey(node.Labels, NodeLabel)

\* Faulty variant: every node that is not labelled spot counts as on-demand.
isOnDemandNodeNotSpot(node) == Lookup(node.Labels, NodeLabel) # "spot"

isOnDemandNode(node) ==
  LET exists == HasKey(node.Labels, NodeLabel)
  IN exists /\ Lookup(node.Labels, NodeLabel) = "on-demand"

\* Faulty variant: any node that carries the capacity label counts as spot.
isSpotNodeByKey(node) == HasKey(node.Labels, NodeLabel)

isSpotNode(node) ==
  LET exists == HasKey(node.Labels, NodeLabel)
  IN exists /\ Lookup(node.Labels, NodeLabel) = "spot"

\* Faulty variant: ready unless a Ready condition says False, so that an
\* Unknown or absent Ready condition passes.
isNodeReadyUnlessFalse(node) ==
  ~\E i \in 1..Len(node.Conditions) :
      /\ node.Conditions[i].Type = NodeReady
      /\ node.Conditions[i].Status = ConditionFalse

isNodeReady(node) ==
  \E i \in 1..Len(node.Conditions) :
     /\ node.Conditions[i].Type = NodeReady
     /\ node.Conditions[i].Status = ConditionTrue

(***************************************************************************)
(* Workload resolver.  resolveFrom walks pod.OwnerReferences from index i  *)
(* as the for loop of getWorkloadReplicas does; it yields the returned     *)
(* count, the klog.Errorf lines written and the API reads issued.          *)
(***************************************************************************)
Resolved(n, logged, calls) == [replicas |-> n, logged |-> logged, calls |-> calls]

ApiCall(resource, name, err) == [resource |-> resource, name |-> name, err |-> err]

RECURSIVE resolveFrom(_, _, _)
resolveFrom(cs, pod, i) ==
  IF i > Len(pod.OwnerReferences) THEN Resolved(DefaultReplicaSet, <<>>, <<>>)
  ELSE
    LET ownerRef == pod.OwnerReferences[i] IN
    IF ownerRef.Kind = "ReplicaSet" THEN
      IF ownerRef.Controller = "true" THEN
        LET rs == Get(cs.ReplicaSets, "replicasets", cs, pod.Namespace, ownerRef.Name)
            rsCall == ApiCall("replicasets", ownerRef.Name, rs.err)
        IN
        IF rs.err
        THEN Resolved(DefaultReplicaSet, <<"Failed to get ReplicaSet">>, <<rsCall>>)
        ELSE
          IF Len(rs.obj.OwnerReferences) > 0
               /\ rs.obj.OwnerReferences[1].Kind = "Deployment"
          THEN
            LET owner == rs.obj.OwnerReferences[1]
                d == Get(cs.Deployments, "deployments", cs, pod.Namespace, owner.Name)
                dCall == ApiCall("deployments", owner.Name, d.err)
            IN
            IF d.err
            THEN Resolved(DefaultReplicaSet, <<"Failed to get Deployment">>,
                          <<rsCall, dCall>>)
            ELSE Resolved(d.obj.Replicas, <<>>, <<rsCall, dCall>>)
          ELSE
            LET rest == resolveFrom(cs, pod, i + 1)
            IN Resolved(rest.replicas, rest.logged, <<rsCall>> \o rest.calls)
      ELSE resolveFrom(cs, pod, i + 1)
    ELSE IF ownerRef.Kind = "StatefulSet" THEN
      LET s == Get(cs.StatefulSets, "statefulsets", cs, pod.Namespace, ownerRef.Name)
          sCall == ApiCall("statefulsets", ownerRef.Name, s.err)
      IN
      IF s.err
      THEN Resolved(DefaultReplicaSet, <<"Failed to get StatefulSet">>, <<sCall>>)
      ELSE Resolved(s.obj.Replicas, <<>>, <<sCall>>)
    ELSE resolveFrom(cs, pod, i + 1)

\* Faulty variant: the Deployment is not reached (it is looked up under the
\* ReplicaSet's name, as in the draft kept in main.go:227), so the default
\* is returned for every pod of a Deployment.
getWorkloadReplicasByReplicaSetName(cs, pod) ==
  LET r == resolveFrom(cs, pod, 1)
  IN IF \E i \in 1..Len(r.calls) : r.calls[i].resource = "deployments"
     THEN DefaultReplicaSet
     ELSE r.replicas

\* Faulty variant: a failed lookup yields the zero value instead of the
\* default.
getWorkloadReplicasZeroOnError(cs, pod) ==
  LET r == resolveFrom(cs, pod, 1)
  IN IF r.logged # <<>> THEN 0 ELSE r.replicas

getWorkloadReplicas(cs, pod) == resolveFrom(cs, pod, 1).replicas

\* Faulty variant: one failed list makes every node's count 0.
getWorkloadPodsOnNodeAnyFailure(cs, pod, node) ==
  IF "pods" \in cs.unavailable \/ cs.listFails # {} THEN 0
  ELSE Cardinality({q \in cs.Pods :
                      /\ q.Namespace = pod.Namespace
                      /\ q.NodeName = node.Name
                      /\ pod.Labels \subseteq q.Labels})

\* Pods of pod's namespace bound to node whose labels include pod.Labels
\* A failed list is logged and counted as 0.
\* (labels.SelectorFromSet(pod.Labels) with the spec.nodeName field selector).
getWorkloadPodsOnNode(cs, pod, node) ==
  IF "pods" \in cs.unavailable \/ node.Name \in cs.listFails THEN 0
  ELSE Cardinality({q \in cs.Pods :
                      /\ q.Namespace = pod.Namespace
                      /\ q.NodeName = node.Name
                      /\ pod.Labels \subseteq q.Labels})

(***************************************************************************)
(* Placement decision engine.                                              *)
(***************************************************************************)
\* Faulty variant: when no node passes, all candidates are returned so that
\* the result is never empty.
FilterWithFallback(cs, args) ==
  LET workloadReplicas == getWorkloadReplicas(cs, args.Pod)
      keep(node) ==
        /\ isNodeReady(node)
        /\ IF workloadReplicas = DefaultReplicaSet
           THEN isOnDemandNode(node)
           ELSE isSpotNode(node)
      kept == SelectSeq(args.Nodes, keep)
  IN IF kept = <<>> THEN args.Nodes ELSE kept

Filter(cs, args) ==
  LET workloadReplicas == getWorkloadReplicas(cs, args.Pod)
      keep(node) ==
        /\ isNodeReady(node)
        /\ IF workloadReplicas = DefaultReplicaSet
           THEN isOnDemandNode(node)
           ELSE isSpotNode(node)
  IN SelectSeq(args.Nodes, keep)

\* Faulty variant: the on-demand bonus is given to single-replica workloads
\* only.
PrioritizeBonusForSingleOnly(cs, args) ==
  LET workloadReplicas == getWorkloadReplicas(cs, args.Pod)
      score(node) ==
        (IF isOnDemandNode(node) /\ workloadReplicas = DefaultReplicaSet
         THEN 10 ELSE 0)
        - (IF workloadReplicas > DefaultReplicaSet
           THEN getWorkloadPodsOnNode(cs, args.Pod, node)
           ELSE 0)
  IN [i \in 1..Len(args.Nodes) |->
        [Host |-> args.Nodes[i].Name, Score |-> score(args.Nodes[i])]]

\* Faulty variant: the handler keeps state between calls; a call made while
\* the previous response is still held adds 1 to every score.
PrioritizeWithCarryOver(cs, args) ==
  LET workloadReplicas == getWorkloadReplicas(cs, args.Pod)
      score(node) ==
        (IF isOnDemandNode(node) THEN 10 ELSE 0)
        - (IF workloadReplicas > DefaultReplicaSet
           THEN getWorkloadPodsOnNode(cs, args.Pod, node)
           ELSE 0)
        + (IF response = None THEN 0 ELSE 1)
  IN [i \in 1..Len(args.Nodes) |->
        [Host |-> args.Nodes[i].Name, Score |-> score(args.Nodes[i])]]

Prioritize(cs, args) ==
  LET workloadReplicas == getWorkloadReplicas(cs, args.Pod)
      score(node) ==
        (IF isOnDemandNode(node) THEN 10 ELSE 0)
        - (IF workloadReplicas > DefaultReplicaSet
           THEN getWorkloadPodsOnNode(cs, args.Pod, node)
           ELSE 0)
  IN [i \in 1..Len(args.Nodes) |->
        [Host |-> args.Nodes[i].Name, Score |-> score(args.Nodes[i])]]

(***************************************************************************)
(* The host's request: a pending pod and the node objects of a candidate   *)
(* list, as the scheduler sends them in ExtenderArgs.                      *)
(***************************************************************************)
PendingPods == {p \in pods : p.NodeName = NoNode}

ExtenderArgs(pod, cand) ==
  [Pod |-> pod, Nodes |-> [i \in 1..Len(cand) |-> nodes[cand[i]]]]

Handled(verb, args, result) ==
  [verb |-> verb, args |-> args, status |-> StatusOK,
   workloadReplicas |-> getWorkloadReplicas(clientset, args.Pod),
   logged |-> resolveFrom(clientset, args.Pod, 1).logged,
   calls |-> resolveFrom(clientset, args.Pod, 1).calls,
   result |-> result]

\* A request body: JSON or not, and what it gives for "Pod" and "Nodes"
\* (Nil when the key is missing).
RequestBody(args) ==
  [json |-> TRUE, Pod |-> args.Pod, Nodes |-> [Items |-> args.Nodes]]

NotJSON == [json |-> FALSE, Pod |-> Nil, Nodes |-> Nil]

\* json.NewDecoder(r.Body).Decode(&args): a body that is not JSON is an
\* error; a JSON body without "Pod" or "Nodes" leaves the pointer nil.
Decode(body) ==
  IF ~body.json THEN [err |-> TRUE]
  ELSE [err |-> FALSE, Pod |-> body.Pod, Nodes |-> body.Nodes]

\* http.Error(w, err.Error(), code): the call ends with an error status.
HttpError(verb, body, code) ==
  [verb |-> verb, args |-> body, status |-> code, result |-> <<>>]

\* Filter and Prioritize dereference args.Pod and args.Nodes first; for a
\* nil pointer the handler panics, net/http recovers the panic and closes
\* the connection: no status and no body are written.
Panicked(verb, body) ==
  [verb |-> verb, args |-> body, status |-> NoStatus, result |-> <<>>]

\* The body of the /filter handler for any request body.
ServeFilter(body) ==
  LET d == Decode(body)
  IN IF d.err THEN HttpError("filter", body, StatusBadRequest)
     ELSE IF d.Pod = Nil \/ d.Nodes = Nil THEN Panicked("filter", body)
     ELSE LET args == [Pod |-> d.Pod, Nodes |-> d.Nodes.Items]
          IN Handled("filter", args, Filter(clientset, args))

\* The body of the /prioritize handler for any request body; Prioritize
\* returns a nil error in every case.
ServePrioritize(body) ==
  LET d == Decode(body)
  IN IF d.err THEN HttpError("prioritize", body, StatusBadRequest)
     ELSE IF d.Pod = Nil \/ d.Nodes = Nil THEN Panicked("prioritize", body)
     ELSE LET args == [Pod |-> d.Pod, Nodes |-> d.Nodes.Items]
          IN Handled("prioritize", args, Prioritize(clientset, args))

\* http.HandleFunc("/filter", ...): decode the args, run Filter, write the result.
FilterHandler ==
  /\ response = None
  /\ \E pod \in PendingPods, cand \in CandidateLists :
       LET args == ExtenderArgs(pod, cand)
       IN response' = ServeFilter(RequestBody(args))
  /\ UNCHANGED <<nodes, pods, replicaSets, deployments, statefulSets, unavailable, controller, requests>>

\* http.HandleFunc("/prioritize", ...): decode the args, run Prioritize, write the result.
PrioritizeHandler ==
  /\ response = None
  /\ \E pod \in PendingPods, cand \in CandidateLists :
       LET args == ExtenderArgs(pod, cand)
       IN response' = ServePrioritize(RequestBody(args))
  /\ UNCHANGED <<nodes, pods, replicaSets, deployments, statefulSets, unavailable, controller, requests>>

\* Request bodies that are not what the scheduler sends: not JSON, no pod,
\* no node list, and a node without a name.
MalformedBodies ==
  {NotJSON}
  \cup {[json |-> TRUE, Pod |-> Nil, Nodes |-> [Items |-> <<nodes[n]>>]] : n \in NodeNames}
  \cup {[json |-> TRUE, Pod |-> pod, Nodes |-> Nil] : pod \in PendingPods}
  \cup {[json |-> TRUE, Pod |-> pod,
          Nodes |-> [Items |-> <<[nodes[n] EXCEPT !.Name = NoNode]>>]] :
          pod \in PendingPods, n \in NodeNames}

\* A client posts a malformed body to /filter or /prioritize.
MalformedRequest ==
  /\ response = None
  /\ \E body \in MalformedBodies :
       \/ response' = ServeFilter(body)
       \/ response' = ServePrioritize(body)
  /\ UNCHANGED <<nodes, pods, replicaSets, deployments, statefulSets, unavailable, controller, requests>>

\* The host has read the response.
Respond ==
  /\ response # None
  /\ response' = None
  /\ UNCHANGED <<nodes, pods, replicaSets, deployments, statefulSets, unavailable, controller, requests>>

(***************************************************************************)
(* The cluster around the extender.                                        *)
(***************************************************************************)
\* The kubelet / node controller reports new conditions for a node.
NodeStatusUpdate ==
  /\ response = None
  /\ \E n \in NodeNames, c \in ConditionLists :
       /\ c # nodes[n].Conditions
       /\ nodes' = [nodes EXCEPT ![n].Conditions = c]
  /\ UNCHANGED <<pods, replicaSets, deployments, statefulSets, unavailable, response, controller, requests>>

\* A Deployment's declared replica count is changed.
ScaleDeployment ==
  /\ response = None
  /\ \E d \in deployments, r \in 0..MaxReplicas :
       /\ r # d.Replicas
       /\ deployments' = (deployments \ {d}) \cup {[d EXCEPT !.Replicas = r]}
  /\ UNCHANGED <<nodes, pods, replicaSets, statefulSets, unavailable, response, controller, requests>>

\* A StatefulSet's declared replica count is changed.
ScaleStatefulSet ==
  /\ response = None
  /\ \E s \in statefulSets, r \in 0..MaxReplicas :
       /\ r # s.Replicas
       /\ statefulSets' = (statefulSets \ {s}) \cup {[s EXCEPT !.Replicas = r]}
  /\ UNCHANGED <<nodes, pods, replicaSets, deployments, unavailable, response, controller, requests>>

\* The host binds a pending pod of a workload to a node.
BindPod ==
  /\ response = None
  /\ \E p \in PendingPods, n \in NodeNames :
       /\ Cardinality(PendingPods) > 1
       /\ pods' = (pods \ {p}) \cup {[p EXCEPT !.NodeName = n]}
  /\ UNCHANGED <<nodes, replicaSets, deployments, statefulSets, unavailable, response, controller, requests>>

\* A bound pod of a workload is deleted and its controller creates the
\* replacement, unbound.
ReplacePod ==
  /\ response = None
  /\ \E p \in pods :
       /\ p.NodeName # NoNode
       /\ p.OwnerReferences # <<>>
       /\ pods' = (pods \ {p}) \cup {[p EXCEPT !.NodeName = NoNode]}
  /\ UNCHANGED <<nodes, replicaSets, deployments, statefulSets, unavailable, response, controller, requests>>

\* Requests for one API resource start or stop failing.
ApiAvailability ==
  /\ response = None
  /\ \E r \in {"replicasets", "deployments", "statefulsets"} :
       unavailable' = IF r \in unavailable THEN unavailable \ {r}
                      ELSE unavailable \cup {r}
  /\ UNCHANGED <<nodes, pods, replicaSets, deployments, statefulSets, response, controller, requests>>

\* Pod list requests for one node start or stop failing.
ListAvailability ==
  /\ response = None
  /\ \E n \in NodeNames :
       listFails' = IF n \in listFails THEN listFails \ {n} ELSE listFails \cup {n}
  /\ UNCHANGED <<nodes, pods, replicaSets, deployments, statefulSets, unavailable, response,
                 controller, inflight, hanging>>

(***************************************************************************)
(* Handler calls in flight.  net/http serves every request on a goroutine  *)
(* of its own, so calls to /filter and /prioritize overlap.  A call is     *)
(* accepted, makes its API requests (the resolver's Gets, and the pod      *)
(* lists of Prioritize) with context.Background(), and writes its          *)
(* response once they are answered; `inflight` has one slot per            *)
(* connection.                                                             *)
(***************************************************************************)
Slots == 1..MaxCalls

NoCall == [pc |-> "free"]

Call(verb, args) == [pc |-> "running", verb |-> verb, args |-> args, response |-> None]

\* The API resources whose requests can stay unanswered in the model.
HangingResources == {"deployments", "pods"}

\* Faulty variant: args is a variable of the package, shared by the
\* handler's goroutines; a call reads what the running call of the highest
\* slot has decoded.
ArgsOfShared(i) ==
  LET running == {j \in Slots : inflight[j].pc = "running"}
  IN inflight[CHOOSE j \in running : \A k \in running : k <= j].args

\* var args extenderv1.ExtenderArgs: a variable of the handler's call.
ArgsOf(i) == inflight[i].args

\* The API resources a call sends requests to before it returns.
Awaits(call) ==
  LET r == resolveFrom(clientset, call.args.Pod, 1)
  IN {r.calls[k].resource : k \in 1..Len(r.calls)}
       \cup (IF /\ call.verb = "prioritize"
                /\ r.replicas > DefaultReplicaSet
                /\ call.args.Nodes # <<>>
             THEN {"pods"} ELSE {})

\* The candidate lists of overlapping calls: nodes in the order of the
\* scheduler's cache.
OrderedCandidates ==
  {s \in CandidateLists : \A i, j \in 1..Len(s) : i < j => s[i] < s[j]}

\* The server accepts a request on a free connection; connection i carries
\* the requests for the pending pod named i.
Accept(i) ==
  /\ inflight[i] = NoCall
  /\ \E verb \in {"filter", "prioritize"}, pod \in PendingPods, cand \in OrderedCandidates :
       /\ pod.Name = i
       /\ inflight' = [inflight EXCEPT ![i] = Call(verb, ExtenderArgs(pod, cand))]
  /\ UNCHANGED <<nodes, pods, replicaSets, deployments, statefulSets, unavailable,
                 response, controller, listFails, hanging>>

\* A call whose API requests are all answered writes its response.
Return(i) ==
  /\ inflight[i].pc = "running"
  /\ Awaits(inflight[i]) \cap hanging = {}
  /\ LET call == inflight[i]
         written == IF call.verb = "filter"
                    THEN ServeFilter(RequestBody(ArgsOf(i)))
                    ELSE ServePrioritize(RequestBody(ArgsOf(i)))
     IN inflight' = [inflight EXCEPT ![i] = [call EXCEPT !.pc = "returned",
                                                         !.response = written]]
  /\ UNCHANGED <<nodes, pods, replicaSets, deployments, statefulSets, unavailable,
                 response, controller, listFails, hanging>>

\* A call sends a request to a resource that does not answer.  The request
\* is made with context.Background() by a client without timeout: the
\* call waits for an answer that does not come.
Stall(i) ==
  /\ inflight[i].pc = "running"
  /\ Awaits(inflight[i]) \cap hanging # {}
  /\ inflight' = [inflight EXCEPT ![i].pc = "waiting"]
  /\ UNCHANGED <<nodes, pods, replicaSets, deployments, statefulSets, unavailable,
                 response, controller, listFails, hanging>>

\* The scheduler has read the response of a call.
Close(i) ==
  /\ inflight[i].pc = "returned"
  /\ inflight' = [inflight EXCEPT ![i] = NoCall]
  /\ UNCHANGED <<nodes, pods, replicaSets, deployments, statefulSets, unavailable,
                 response, controller, listFails, hanging>>

AcceptCall == \E i \in Slots : Accept(i)

ReturnCall == \E i \in Slots : Return(i)

StallCall == \E i \in Slots : Stall(i)

CloseCall == \E i \in Slots : Close(i)

\* Requests for one API resource stop being answered, or are answered again.
LookupHangs ==
  /\ \E r \in HangingResources :
       hanging' = IF r \in hanging THEN hanging \ {r} ELSE hanging \cup {r}
  /\ UNCHANGED <<nodes, pods, replicaSets, deployments, statefulSets, unavailable,
                 response, controller, listFails, inflight>>

(***************************************************************************)
(* Capacity-loss reaction controller (custom-controller/new.md, lines      *)
(* 392-461).  The node informer delivers update notifications to           *)
(* UpdateFunc one at a time; handleNodeTermination lists the pods bound to *)
(* the node and asks the API server to evict each one.  `workflow` holds   *)
(* the last UpdateFunc call: the notification, the pods listed, the pods   *)
(* still to evict and the requests issued with what was logged for each.   *)
(***************************************************************************)
isTerminating(node) ==
  \E i \in 1..Len(node.Conditions) :
     /\ node.Conditions[i].Type = NodeReady
     /\ node.Conditions[i].Status # ConditionTrue

\* The items of a list response: the API server lists a set of objects in
\* one fixed order (the order of their keys).
Items(S) ==
  CHOOSE s \in [1..Cardinality(S) -> S] :
    \A i, j \in 1..Cardinality(S) : i # j => s[i] # s[j]

\* Pods("").List with the spec.nodeName field selector: the pods of all
\* namespaces bound to the node.
PodsOnNode(cs, nodeName) == {p \in cs.Pods : p.NodeName = nodeName}

\* A pod counts towards a budget when the budget's selector matches it and
\* the pod is bound.
Healthy(podSet, pdb) ==
  {q \in podSet : /\ q.Namespace = pdb.Namespace
                  /\ pdb.Selector \subseteq q.Labels
                  /\ q.NodeName # NoNode}

\* Variant of new.md, lines 1294-1301: Pods(ns).Delete instead of Evict;
\* a delete does not consult the budgets.
Delete(podSet, budgets, pod) ==
  IF ~\E q \in podSet : q.Namespace = pod.Namespace /\ q.Name = pod.Name
  THEN "NotFound"
  ELSE ""

\* The error of Pods(ns).Evict for a pod: not found when the pod is gone,
\* too many requests when a budget that covers the pod would fall below
\* its minimum, otherwise none.
Evict(podSet, budgets, pod) ==
  IF ~\E q \in podSet : q.Namespace = pod.Namespace /\ q.Name = pod.Name
  THEN "NotFound"
  ELSE IF \E b \in budgets :
            /\ b.Namespace = pod.Namespace
            /\ b.Selector \subseteq pod.Labels
            /\ Cardinality(Healthy(podSet, b) \ {pod}) < b.MinAvailable
  THEN "TooManyRequests"
  ELSE ""

\* What the loop logs for a request.
Logged(err) ==
  IF err # "" THEN "Error evicting pod" ELSE "Successfully evicted pod"

Issued(pod, err) == [pod |-> pod, err |-> err, logged |-> Logged(err)]

\* Faulty variant: only the first listed pod is taken up.
handleNodeTerminationFirstOnly(event, listed) ==
  [event |-> event, node |-> event.new.Name, listErr |-> FALSE,
   enumerated |-> listed,
   todo |-> IF listed = <<>> THEN <<>> ELSE <<listed[1]>>, issued |-> <<>>]

\* handleNodeTermination up to its loop: the pods listed, in the order the
\* API server returned them.
handleNodeTermination(event, listed) ==
  [event |-> event, node |-> event.new.Name, listErr |-> FALSE,
   enumerated |-> listed, todo |-> listed, issued |-> <<>>]

\* Faulty variant: handleNodeTermination is started in a goroutine of its
\* own (go handleNodeTermination(...)), so that the informer delivers the
\* next notification while the previous workflow is still at work.
UpdateFuncAsync ==
  /\ events # <<>>
  /\ LET event == Head(events)
         newNode == event.new
     IN /\ events' = Tail(events)
        /\ IF isSpotNode(newNode) /\ isTerminating(newNode)
           THEN IF "pods" \in unavailable
                THEN workflow' = [Idle EXCEPT !.event = event, !.node = newNode.Name,
                                              !.listErr = TRUE]
                ELSE workflow' = handleNodeTermination(
                                   event, Items(PodsOnNode(clientset, newNode.Name)))
           ELSE workflow' = [Idle EXCEPT !.event = event]
  /\ UNCHANGED <<nodes, pods, replicaSets, deployments, statefulSets, unavailable,
                 response, pdbs, requests>>

\* UpdateFunc: the informer calls it with the next notification once the
\* previous call has returned.
UpdateFunc ==
  /\ events # <<>>
  /\ workflow.todo = <<>>
  /\ LET event == Head(events)
         newNode == event.new
     IN /\ events' = Tail(events)
        /\ IF isSpotNode(newNode) /\ isTerminating(newNode)
           THEN IF "pods" \in unavailable
                THEN workflow' = [Idle EXCEPT !.event = event, !.node = newNode.Name,
                                              !.listErr = TRUE]
                ELSE workflow' = handleNodeTermination(
                                   event, Items(PodsOnNode(clientset, newNode.Name)))
           ELSE workflow' = [Idle EXCEPT !.event = event]
  /\ UNCHANGED <<nodes, pods, replicaSets, deployments, statefulSets, unavailable,
                 response, pdbs, requests>>

\* Faulty variant: the loop returns at the first request that fails.
EvictNextReturnOnError ==
  /\ workflow.todo # <<>>
  /\ LET pod == Head(workflow.todo)
     IN \E err \in {Evict(pods, pdbs, pod), "ServerTimeout"} :
          /\ pods' = IF err = "" THEN pods \ {pod} ELSE pods
          /\ workflow' = [workflow EXCEPT !.todo = IF err = "" THEN Tail(@) ELSE <<>>,
                                          !.issued = Append(@, Issued(pod, err))]
  /\ UNCHANGED <<nodes, replicaSets, deployments, statefulSets, unavailable,
                 response, pdbs, events, requests>>

\* One iteration of the loop of handleNodeTermination: the eviction request
\* for the next listed pod, which can also fail for a transient reason.
EvictNext ==
  /\ workflow.todo # <<>>
  /\ LET pod == Head(workflow.todo)
     IN \E err \in {Evict(pods, pdbs, pod), "ServerTimeout"} :
          /\ pods' = IF err = "" THEN pods \ {pod} ELSE pods
          /\ workflow' = [workflow EXCEPT !.todo = Tail(@),
                                          !.issued = Append(@, Issued(pod, err))]
  /\ UNCHANGED <<nodes, replicaSets, deployments, statefulSets, unavailable,
                 response, pdbs, events, requests>>

\* What the kubelet reports for a node: ready or not ready.
ReportedConditions ==
  { <<Cond(NodeReady, ConditionTrue)>>, <<Cond(NodeReady, ConditionFalse)>> }

\* A node's conditions change and the informer queues the notification.
NodeUpdate ==
  /\ Len(events) < MaxEvents
  /\ \E n \in NodeNames, c \in ReportedConditions :
       /\ c # nodes[n].Conditions
       /\ nodes' = [nodes EXCEPT ![n].Conditions = c]
       /\ events' = Append(events, [old |-> nodes[n], new |-> nodes'[n]])
  /\ UNCHANGED <<pods, replicaSets, deployments, statefulSets, unavailable,
                 response, pdbs, workflow, requests>>

\* The informer's periodic resync (and a node heartbeat): an update
\* notification for a node whose labels and conditions are as before.
Resync ==
  /\ Len(events) < MaxEvents
  /\ \E n \in NodeNames :
       events' = Append(events, [old |-> nodes[n], new |-> nodes[n]])
  /\ UNCHANGED <<nodes, pods, replicaSets, deployments, statefulSets, unavailable,
                 response, pdbs, workflow, requests>>

\* A pod the controller has listed is removed by someone else (its owner
\* scales down, the pod garbage collector, an operator) before the
\* controller's request for it.
PodGone ==
  /\ \E p \in pods :
       /\ \E i \in 1..Len(workflow.todo) : workflow.todo[i] = p
       /\ pods' = pods \ {p}
  /\ UNCHANGED <<nodes, replicaSets, deployments, statefulSets, unavailable,
                 response, pdbs, events, workflow, requests>>

(***************************************************************************)
(* Cluster objects of the initial states.                                  *)
(***************************************************************************)
WorkloadObj(name, replicas) ==
  [Namespace |-> "default", Name |-> name, Replicas |-> replicas]

ReplicaSetObj(name, owners) ==
  [Namespace |-> "default", Name |-> name, OwnerReferences |-> owners]

\* Labels of the pods of Deployment web (template labels and template hash).
WebLabels == {<<"app", "web">>, <<"pod-template-hash", "5d4f8">>}

WebPod(name, nodeName) ==
  PodObj(name, "default", WebLabels,
         <<OwnerRef("ReplicaSet", "web-rs", "true")>>, nodeName)

\* A pod of the previous revision of Deployment web: it belongs to the
\* Deployment's old ReplicaSet and carries that revision's template hash.
WebOldReplicaSet ==
  ReplicaSetObj("web-old-rs", <<OwnerRef("Deployment", "web", "true")>>)

WebOldPod(name, nodeName) ==
  PodObj(name, "default", {<<"app", "web">>, <<"pod-template-hash", "7c9b1">>},
         <<OwnerRef("ReplicaSet", "web-old-rs", "true")>>, nodeName)

InitReplicaSets ==
  { ReplicaSetObj("web-rs", <<OwnerRef("Deployment", "web", "true")>>),
    ReplicaSetObj("bare-rs", <<>>),
    ReplicaSetObj("rollout-rs", <<OwnerRef("Rollout", "canary", "true")>>) }

ReadyNode(n, labels) ==
  [Name |-> n, Labels |-> labels,
   Conditions |-> <<Cond(NodeReady, ConditionTrue)>>]

\* Owner references a pod can carry: a controlling ReplicaSet of a
\* Deployment, the same without the controller flag, a ReplicaSet without a
\* Deployment, one owned by another kind, a deleted ReplicaSet, a
\* StatefulSet, and an owner of another kind.
OwnerRefs ==
  { OwnerRef("ReplicaSet", "web-rs", "true"),
    OwnerRef("ReplicaSet", "web-rs", "nil"),
    OwnerRef("ReplicaSet", "bare-rs", "true"),
    OwnerRef("ReplicaSet", "rollout-rs", "true"),
    OwnerRef("ReplicaSet", "gone-rs", "true"),
    OwnerRef("StatefulSet", "db", "true"),
    OwnerRef("Job", "batch", "true") }

(***************************************************************************)
(* Spec: nodes of every class and readiness, one pending pod of            *)
(* Deployment web, whose replica count changes.                            *)
(***************************************************************************)
Init ==
  /\ nodes \in {f \in [NodeNames -> [Name : NodeNames, Labels : NodeLabelSets,
                                      Conditions : {<<Cond(NodeReady, ConditionTrue)>>}]] :
                  \A n \in NodeNames : f[n].Name = n}
  /\ pods = {WebPod("web-1", NoNode)}
  /\ replicaSets = InitReplicaSets
  /\ deployments = {WorkloadObj("web", 1)}
  /\ statefulSets = {WorkloadObj("db", MaxReplicas)}
  /\ unavailable = {}
  /\ response = None
  /\ pdbs = {}
  /\ events = <<>>
  /\ workflow = Idle
  /\ listFails = {}
  /\ inflight = <<>>
  /\ hanging = {}

Next ==
  \/ NodeStatusUpdate
  \/ ScaleDeployment
  \/ FilterHandler
  \/ PrioritizeHandler
  \/ Respond

Spec == Init /\ [][Next]_vars

(***************************************************************************)
(* SpecPrioritize: ready nodes of every class, the pods of Deployment web  *)
(* bound and rebound, a pod of the Deployment's previous revision, and a   *)
(* copy of a web pod made for debugging (same labels, no owner) on node 1. *)
(***************************************************************************)
InitPrioritize ==
  /\ nodes \in {f \in [NodeNames -> [Name : NodeNames, Labels : NodeLabelSets,
                                      Conditions : {<<Cond(NodeReady, ConditionTrue)>>}]] :
                  \A n \in NodeNames : f[n].Name = n}
  /\ pods = { WebPod("web-1", NoNode), WebPod("web-2", NoNode), WebPod("web-3", NoNode),
              PodObj("web-debug", "default", WebLabels, <<>>, 1),
              WebOldPod("web-0", MaxNodes) }
  /\ replicaSets = InitReplicaSets \cup {WebOldReplicaSet}
  /\ deployments = {WorkloadObj("web", MaxReplicas)}
  /\ statefulSets = {WorkloadObj("db", MaxReplicas)}
  /\ unavailable = {}
  /\ response = None
  /\ pdbs = {}
  /\ events = <<>>
  /\ workflow = Idle
  /\ listFails = {}
  /\ inflight = <<>>
  /\ hanging = {}

NextPrioritize ==
  \/ BindPod
  \/ ReplacePod
  \/ ScaleDeployment
  \/ FilterHandler
  \/ PrioritizeHandler
  \/ Respond

SpecPrioritize == InitPrioritize /\ [][NextPrioritize]_vars

(***************************************************************************)
(* SpecResolve: one pending pod with any owner references, workloads that  *)
(* are scaled, and API resources that fail.                                *)
(***************************************************************************)
InitResolve ==
  /\ nodes = [n \in NodeNames |->
                ReadyNode(n, IF n = 1 THEN {<<NodeLabel, "on-demand">>}
                             ELSE {<<NodeLabel, "spot">>})]
  /\ \E owners \in SeqsUpTo(OwnerRefs, MaxOwnerRefs) :
       pods = {PodObj("pending", "default", {<<"app", "x">>}, owners, NoNode)}
  /\ replicaSets = InitReplicaSets
  /\ deployments = {WorkloadObj("web", MaxReplicas)}
  /\ statefulSets = {WorkloadObj("db", 1)}
  /\ unavailable = {}
  /\ response = None
  /\ pdbs = {}
  /\ events = <<>>
  /\ workflow = Idle
  /\ listFails = {}
  /\ inflight = <<>>
  /\ hanging = {}

NextResolve ==
  \/ ScaleDeployment
  \/ ScaleStatefulSet
  \/ ApiAvailability
  \/ FilterHandler
  \/ PrioritizeHandler
  \/ Respond

SpecResolve == InitResolve /\ [][NextResolve]_vars

(***************************************************************************)
(* SpecRequests: the handlers serving the scheduler's requests and         *)
(* malformed ones, for nodes of every class and a pod of Deployment web.   *)
(***************************************************************************)
InitRequests ==
  /\ nodes \in {f \in [NodeNames -> [Name : NodeNames, Labels : NodeLabelSets,
                                      Conditions : {<<Cond(NodeReady, ConditionTrue)>>}]] :
                  \A n \in NodeNames : f[n].Name = n}
  /\ pods = {WebPod("web-1", NoNode), WebPod("web-2", MaxNodes)}
  /\ replicaSets = InitReplicaSets
  /\ deployments = {WorkloadObj("web", MaxReplicas)}
  /\ statefulSets = {}
  /\ unavailable = {}
  /\ response = None
  /\ pdbs = {}
  /\ events = <<>>
  /\ workflow = Idle
  /\ listFails = {}
  /\ inflight = <<>>
  /\ hanging = {}

NextRequests ==
  \/ ScaleDeployment
  \/ FilterHandler
  \/ PrioritizeHandler
  \/ MalformedRequest
  \/ Respond

SpecRequests == InitRequests /\ [][NextRequests]_vars

(***************************************************************************)
(* SpecController: the reaction controller over spot and on-demand nodes   *)
(* whose conditions change, the pods of Deployment web and of another      *)
(* workload bound to them, and a disruption budget for web.                *)
(***************************************************************************)
BudgetObj(name, selector, minAvailable) ==
  [Namespace |-> "default", Name |-> name, Selector |-> selector,
   MinAvailable |-> minAvailable]

\* Two pods of Deployment web and a pod without owner on node 1, a third
\* pod of web on the last node.
ControllerPods ==
  { WebPod("web-1", 1), WebPod("web-2", 1), WebPod("web-3", MaxNodes),
    PodObj("api-1", "default", {<<"app", "api">>}, <<>>, 1) }

InitController ==
  /\ \E labels \in [NodeNames -> {{<<NodeLabel, "spot">>}, {<<NodeLabel, "on-demand">>}}] :
       /\ labels[1] = {<<NodeLabel, "spot">>}
       /\ nodes = [n \in NodeNames |-> ReadyNode(n, labels[n])]
  /\ pods = ControllerPods
  /\ replicaSets = InitReplicaSets
  /\ deployments = {WorkloadObj("web", MaxReplicas)}
  /\ statefulSets = {}
  /\ unavailable = {}
  /\ response = None
  /\ \E m \in 0..MaxReplicas : pdbs = {BudgetObj("web-pdb", {<<"app", "web">>}, m)}
  /\ events = <<>>
  /\ workflow = Idle
  /\ listFails = {}
  /\ inflight = <<>>
  /\ hanging = {}

NextController ==
  \/ NodeUpdate
  \/ Resync
  \/ PodGone
  \/ UpdateFunc
  \/ EvictNext

SpecController == InitController /\ [][NextController]_vars

\* The controller's goroutine keeps running: a notification that can be
\* delivered is delivered, and a loop that can go on goes on.
SpecControllerLive ==
  SpecController /\ WF_vars(UpdateFunc) /\ WF_vars(EvictNext)

(***************************************************************************)
(* SpecListFailure: Prioritize for the pods of Deployment web, which are   *)
(* bound and rebound, while the pod lists of single nodes fail.            *)
(***************************************************************************)
InitListFailure ==
  /\ nodes \in {f \in [NodeNames -> [Name : NodeNames, Labels : NodeLabelSets,
                                      Conditions : {<<Cond(NodeReady, ConditionTrue)>>}]] :
                  \A n \in NodeNames : f[n].Name = n}
  /\ pods = {WebPod("web-1", NoNode), WebPod("web-2", 1), WebPod("web-3", MaxNodes)}
  /\ replicaSets = InitReplicaSets
  /\ deployments = {WorkloadObj("web", MaxReplicas)}
  /\ statefulSets = {}
  /\ unavailable = {}
  /\ response = None
  /\ pdbs = {}
  /\ events = <<>>
  /\ workflow = Idle
  /\ listFails = {}
  /\ inflight = <<>>
  /\ hanging = {}

NextListFailure ==
  \/ ListAvailability
  \/ ReplacePod
  \/ BindPod
  \/ ScaleDeployment
  \/ PrioritizeHandler
  \/ Respond

SpecListFailure == InitListFailure /\ [][NextListFailure]_vars

(***************************************************************************)
(* SpecMargin: an on-demand node (node 1) and spot nodes; Deployment web   *)
(* has up to MaxUnits pods of its current revision and up to MaxUnits pods *)
(* of its previous revision on the on-demand node, and at most one pod on  *)
(* the last spot node; the Deployment declares room for all of them until  *)
(* it is scaled down.  Pods are named by number here.                      *)
(***************************************************************************)
InitMargin ==
  /\ nodes = [n \in NodeNames |->
                ReadyNode(n, IF n = 1 THEN {<<NodeLabel, "on-demand">>}
                             ELSE {<<NodeLabel, "spot">>})]
  /\ \E current \in 0..MaxUnits, old \in 0..MaxUnits, onSpot \in 0..1 :
       pods = {WebPod(0, NoNode)}
                \cup {WebPod(i, 1) : i \in 1..current}
                \cup {WebOldPod(MaxUnits + i, 1) : i \in 1..old}
                \cup {WebPod(2 * MaxUnits + i, MaxNodes) : i \in 1..onSpot}
  /\ replicaSets = InitReplicaSets \cup {WebOldReplicaSet}
  /\ deployments = {WorkloadObj("web", 2 * MaxUnits + 2)}
  /\ statefulSets = {}
  /\ unavailable = {}
  /\ response = None
  /\ pdbs = {}
  /\ events = <<>>
  /\ workflow = Idle
  /\ listFails = {}
  /\ inflight = <<>>
  /\ hanging = {}

NextMargin ==
  \/ ScaleDeployment
  \/ PrioritizeHandler
  \/ Respond

SpecMargin == InitMargin /\ [][NextMargin]_vars

(***************************************************************************)
(* SpecConcurrent: overlapping calls, one for each pending pod of          *)
(* Deployment web, over an on-demand node and spot nodes, with API         *)
(* resources that stop answering.  Pods are named by number here.          *)
(***************************************************************************)
InitConcurrent ==
  /\ nodes = [n \in NodeNames |->
                ReadyNode(n, IF n = 1 THEN {<<NodeLabel, "on-demand">>}
                             ELSE {<<NodeLabel, "spot">>})]
  /\ pods = {WebPod(i, NoNode) : i \in Slots} \cup {WebPod(0, MaxNodes)}
  /\ replicaSets = InitReplicaSets
  /\ deployments = {WorkloadObj("web", MaxReplicas)}
  /\ statefulSets = {}
  /\ unavailable = {}
  /\ response = None
  /\ pdbs = {}
  /\ events = <<>>
  /\ workflow = Idle
  /\ listFails = {}
  /\ inflight = [i \in Slots |-> NoCall]
  /\ hanging = {}

NextConcurrent ==
  \/ AcceptCall
  \/ ReturnCall
  \/ StallCall
  \/ CloseCall
  \/ LookupHangs

SpecConcurrent == InitConcurrent /\ [][NextConcurrent]_vars

\* Every handler goroutine keeps running: an accepted call sends its
\* requests, and writes its response once they are answered.
SpecConcurrentLive ==
  SpecConcurrent /\ \A i \in Slots : WF_vars(Return(i) \/ Stall(i))

(***************************************************************************)
(* Vocabulary of the properties, stated over the cluster's data and the    *)
(* handler's recorded response.                                            *)
(***************************************************************************)
Range(s) == {s[i] : i \in 1..Len(s)}

\* Capacity class of a node: a direct lookup of the capacity label.
ClassOf(node) ==
  IF <<NodeLabel, "spot">> \in node.Labels THEN "spot"
  ELSE IF <<NodeLabel, "on-demand">> \in node.Labels THEN "on-demand"
  ELSE "unknown"

\* The node reports a Ready condition whose status is True.
Ready(node) == Cond(NodeReady, ConditionTrue) \in Range(node.Conditions)

FilterDone == response.verb = "filter"
PrioritizeDone == response.verb = "prioritize"

\* s is a sub-sequence of t: the elements of s, in order, at increasing
\* positions of t.
IsSubSeq(s, t) ==
  \E f \in [1..Len(s) -> 1..Len(t)] :
     /\ \A i \in 1..Len(s) : s[i] = t[f[i]]
     /\ \A i, j \in 1..Len(s) : i < j => f[i] < f[j]

\* The eligibility rule of the design: ready, and on-demand when the
\* workload has one replica.
Eligible(node, replicaCount) ==
  Ready(node) /\ (replicaCount = 1 => ClassOf(node) = "on-demand")

\* What the score subtracts for a node: the pods of the pod's namespace on
\* the node that carry all the pod's labels, for more than one replica.
SpreadTerm(replicaCount, pod, node) ==
  IF replicaCount > 1
  THEN Cardinality({q \in pods : /\ q.Namespace = pod.Namespace
                                 /\ q.NodeName = node.Name
                                 /\ pod.Labels \subseteq q.Labels})
  ELSE 0

BaseScore(node) == IF ClassOf(node) = "on-demand" THEN 10 ELSE 0

(***************************************************************************)
(* C1  Single-replica isolation: when the pod's resolved replica count is  *)
(* 1, the list Filter returns contains no node classified spot.            *)
(***************************************************************************)
C1_SingleReplicaIsolation ==
  (FilterDone /\ response.workloadReplicas = 1)
    => \A node \in Range(response.result) : ClassOf(node) # "spot"

\* Filter ran for one replica over a ready spot node and a ready on-demand
\* node, and returned the on-demand node.
C1_Witness ==
  /\ FilterDone
  /\ response.workloadReplicas = 1
  /\ \E a, b \in Range(response.args.Nodes) :
       /\ ClassOf(a) = "spot" /\ Ready(a)
       /\ ClassOf(b) = "on-demand" /\ Ready(b)
       /\ b \in Range(response.result)

(***************************************************************************)
(* C2  For a resolved replica count greater than 1, Filter keeps every     *)
(* ready spot node and every ready on-demand node of the candidate list.   *)
(***************************************************************************)
C2_BothClassesEligible ==
  (FilterDone /\ response.workloadReplicas > 1)
    => \A node \in Range(response.args.Nodes) :
         (Ready(node) /\ ClassOf(node) \in {"spot", "on-demand"})
           => node \in Range(response.result)

(***************************************************************************)
(* C3  Filter never returns a node that is not ready: every returned node  *)
(* reports a Ready condition with status True.                             *)
(***************************************************************************)
C3_OnlyReadyNodes ==
  FilterDone => \A node \in Range(response.result) : Ready(node)

\* Filter ran over a node of an eligible class whose Ready condition is
\* False, Unknown or absent, dropped it, and kept a ready one.
C3_Witness ==
  /\ FilterDone
  /\ response.result # <<>>
  /\ \E node \in Range(response.args.Nodes) :
       /\ ~Ready(node)
       /\ ClassOf(node) = ClassOf(response.result[1])
       /\ node \notin Range(response.result)

(***************************************************************************)
(* C4  Unknown-class conservatism: a node without a recognised capacity    *)
(* label is not returned by Filter for replica count 1, and Prioritize     *)
(* never scores it above the baseline, the score without the on-demand     *)
(* bonus for the same spread term.                                         *)
(***************************************************************************)
C4_UnknownClassConservatism ==
  /\ (FilterDone /\ response.workloadReplicas = 1)
       => \A node \in Range(response.result) : ClassOf(node) # "unknown"
  /\ PrioritizeDone
       => \A i \in 1..Len(response.args.Nodes) :
            ClassOf(response.args.Nodes[i]) = "unknown"
              => response.result[i].Score
                   <= 0 - SpreadTerm(response.workloadReplicas, response.args.Pod,
                                     response.args.Nodes[i])

\* Prioritize, for more than one replica, scored a node of unknown class
\* that hosts a matching pod, next to an on-demand node that scored higher.
C4_Witness ==
  /\ PrioritizeDone
  /\ response.workloadReplicas > 1
  /\ \E i, j \in 1..Len(response.args.Nodes) :
       /\ ClassOf(response.args.Nodes[i]) = "unknown"
       /\ SpreadTerm(response.workloadReplicas, response.args.Pod,
                     response.args.Nodes[i]) > 0
       /\ ClassOf(response.args.Nodes[j]) = "on-demand"
       /\ response.result[j].Score > response.result[i].Score

(***************************************************************************)
(* C5  For a resolved replica count greater than 1, Filter keeps a ready   *)
(* node that has no capacity label.                                        *)
(***************************************************************************)
C5_UnlabelledEligibleForMany ==
  (FilterDone /\ response.workloadReplicas > 1)
    => \A node \in Range(response.args.Nodes) :
         (Ready(node) /\ ~HasKey(node.Labels, NodeLabel))
           => node \in Range(response.result)

(***************************************************************************)
(* C6  Filter's result is a sub-sequence of the candidate list, holds only *)
(* eligible nodes, and is empty when no candidate is eligible.             *)
(***************************************************************************)
C6_SubSequenceNoFabrication ==
  FilterDone =>
    /\ IsSubSeq(response.result, response.args.Nodes)
    /\ \A i, j \in 1..Len(response.result) :
         i # j => response.result[i] # response.result[j]
    /\ \A node \in Range(response.result) :
         Eligible(node, response.workloadReplicas)
    /\ (\A node \in Range(response.args.Nodes) :
          ~Eligible(node, response.workloadReplicas))
         => response.result = <<>>

\* Filter ran over a non-empty candidate list with no eligible node and
\* returned the empty list.
C6_Witness ==
  /\ FilterDone
  /\ Len(response.args.Nodes) = MaxNodes
  /\ \A node \in Range(response.args.Nodes) :
       ~Eligible(node, response.workloadReplicas)
  /\ response.result = <<>>

(***************************************************************************)
(* Ownership, read from the cluster's data.                                *)
(***************************************************************************)
Exists(store, ns, name) == \E o \in store : o.Namespace = ns /\ o.Name = name

\* A Get of the object fails: the resource is unavailable or the object is
\* not there.
GetFails(store, resource, ns, name) ==
  resource \in unavailable \/ ~Exists(store, ns, name)

\* The ReplicaSet a controller reference of the pod names, when it exists
\* and its first owner is a Deployment.
DeploymentBacked(pod, ref) ==
  /\ ref.Kind = "ReplicaSet"
  /\ ref.Controller = "true"
  /\ \E rs \in replicaSets :
       /\ rs.Namespace = pod.Namespace /\ rs.Name = ref.Name
       /\ rs.OwnerReferences # <<>>
       /\ rs.OwnerReferences[1].Kind = "Deployment"

DeploymentNameOf(pod, ref) ==
  (CHOOSE rs \in replicaSets :
     rs.Namespace = pod.Namespace /\ rs.Name = ref.Name).OwnerReferences[1].Name

\* The workloads that own the pod: the Deployments behind its controlling
\* ReplicaSets and its StatefulSets, as far as they exist.
OwningWorkloads(pod) ==
  {[kind |-> "Deployment", name |-> DeploymentNameOf(pod, ref)] :
     ref \in {r \in Range(pod.OwnerReferences) :
                /\ DeploymentBacked(pod, r)
                /\ Exists(deployments, pod.Namespace, DeploymentNameOf(pod, r))}}
  \cup
  {[kind |-> "StatefulSet", name |-> ref.Name] :
     ref \in {r \in Range(pod.OwnerReferences) :
                /\ r.Kind = "StatefulSet"
                /\ Exists(statefulSets, pod.Namespace, r.Name)}}

\* The replica count a workload declares, as stored.
DeclaredReplicas(ns, w) ==
  (CHOOSE o \in (IF w.kind = "Deployment" THEN deployments ELSE statefulSets) :
     o.Namespace = ns /\ o.Name = w.name).Replicas

\* The lookups behind one owner reference fail.
RefFails(pod, ref) ==
  \/ /\ ref.Kind = "StatefulSet"
     /\ GetFails(statefulSets, "statefulsets", pod.Namespace, ref.Name)
  \/ /\ ref.Kind = "ReplicaSet" /\ ref.Controller = "true"
     /\ \/ GetFails(replicaSets, "replicasets", pod.Namespace, ref.Name)
        \/ /\ DeploymentBacked(pod, ref)
           /\ GetFails(deployments, "deployments", pod.Namespace,
                       DeploymentNameOf(pod, ref))

\* The owner reference leads to no workload and to no failure: another
\* kind, a ReplicaSet that is not the controller, or a ReplicaSet whose
\* first owner is not a Deployment.
RefLeadsNowhere(pod, ref) ==
  /\ ref.Kind # "StatefulSet"
  /\ (ref.Kind = "ReplicaSet" /\ ref.Controller = "true")
       => /\ ~GetFails(replicaSets, "replicasets", pod.Namespace, ref.Name)
          /\ ~DeploymentBacked(pod, ref)

\* Every lookup the pod's owner references call for succeeds.
ChainResolves(pod) == \A ref \in Range(pod.OwnerReferences) : ~RefFails(pod, ref)

\* The first owner reference that leads anywhere leads to a failing lookup.
LookupFails(pod) ==
  \E i \in 1..Len(pod.OwnerReferences) :
     /\ RefFails(pod, pod.OwnerReferences[i])
     /\ \A j \in 1..(i - 1) : RefLeadsNowhere(pod, pod.OwnerReferences[j])

(***************************************************************************)
(* C7  When the pod's ownership chain resolves (pod -> ReplicaSet ->       *)
(* Deployment, or pod -> StatefulSet) the resolved count is the owning     *)
(* workload's declared replica count exactly as stored; it is 1 when the   *)
(* pod has no owning workload.                                             *)
(***************************************************************************)
C7_ResolvesDeclaredReplicas ==
  response # None =>
    LET pod == response.args.Pod
        owning == OwningWorkloads(pod)
    IN /\ (ChainResolves(pod) /\ owning # {})
            => response.workloadReplicas
                 \in {DeclaredReplicas(pod.Namespace, w) : w \in owning}
       /\ (ChainResolves(pod) /\ owning = {})
            => response.workloadReplicas = 1

\* A handler ran for a pod of Deployment web, reached through its
\* ReplicaSet, and resolved the declared count, which is not the default.
C7_Witness ==
  /\ response # None
  /\ response.args.Pod.OwnerReferences = <<OwnerRef("ReplicaSet", "web-rs", "true")>>
  /\ ChainResolves(response.args.Pod)
  /\ response.workloadReplicas # 1
  /\ response.workloadReplicas
       = DeclaredReplicas("default", [kind |-> "Deployment", name |-> "web"])

(***************************************************************************)
(* C8  When a lookup of the pod's ReplicaSet, Deployment or StatefulSet    *)
(* fails, the resolved count is 1, the failure is logged as an error, and  *)
(* the Filter or Prioritize call completes with the result for replica     *)
(* count 1.                                                                *)
(***************************************************************************)
C8_LookupFailureDefaultsToOne ==
  (response # None /\ LookupFails(response.args.Pod)) =>
    /\ response.workloadReplicas = 1
    /\ response.logged # <<>>
    /\ FilterDone =>
         /\ IsSubSeq(response.result, response.args.Nodes)
         /\ \A node \in Range(response.args.Nodes) :
              node \in Range(response.result) <=> Eligible(node, 1)
    /\ PrioritizeDone =>
         /\ Len(response.result) = Len(response.args.Nodes)
         /\ \A i \in 1..Len(response.args.Nodes) :
              response.result[i] = [Host |-> response.args.Nodes[i].Name,
                                    Score |-> BaseScore(response.args.Nodes[i])]

\* Filter ran for a pod whose ReplicaSet has been deleted and returned the
\* on-demand node only.
C8_Witness ==
  /\ FilterDone
  /\ response.args.Pod.OwnerReferences = <<OwnerRef("ReplicaSet", "gone-rs", "true")>>
  /\ Len(response.args.Nodes) = MaxNodes
  /\ response.result # <<>>
  /\ \A node \in Range(response.result) : ClassOf(node) = "on-demand"

OwnUnitsOn(pod, node) ==
  Cardinality({q \in pods : /\ q.NodeName = node.Name
                            /\ q.Namespace = pod.Namespace
                            /\ OwningWorkloads(q) \cap OwningWorkloads(pod) # {}})

C10_ScoreIsBaseMinusOwnUnits ==
  (PrioritizeDone /\ response.workloadReplicas >= 1) =>
    /\ Len(response.result) = Len(response.args.Nodes)
    /\ \A i \in 1..Len(response.args.Nodes) :
         LET node == response.args.Nodes[i]
         IN response.result[i].Score
              = BaseScore(node)
                - (IF response.workloadReplicas > 1
                   THEN OwnUnitsOn(response.args.Pod, node)
                   ELSE 0)

C12_SpreadMonotonicity ==
  (PrioritizeDone /\ response.workloadReplicas > 1) =>
    \A i, j \in 1..Len(response.args.Nodes) :
       LET a == response.args.Nodes[i]
           b == response.args.Nodes[j]
       IN (/\ Ready(a) /\ Ready(b)
           /\ ClassOf(a) = ClassOf(b)
           /\ OwnUnitsOn(response.args.Pod, a) > OwnUnitsOn(response.args.Pod, b))
            => response.result[j].Score >= response.result[i].Score

(***************************************************************************)
(* Vocabulary of the controller's properties.                              *)
(***************************************************************************)
\* handleNodeTermination was called for the last notification.
WorkflowStarted == workflow.node # NoNode

WorkflowDone == WorkflowStarted /\ workflow.todo = <<>>

\* The pods the last workflow has issued a request for.
Requested == {workflow.issued[i].pod : i \in 1..Len(workflow.issued)}

(***************************************************************************)
(* C13  The controller ignores on-demand nodes: every displacement request *)
(* is for a pod bound to a node classified spot, and a notification for a  *)
(* node that is not spot starts no workflow and causes no request.         *)
(***************************************************************************)
C13_OnlySpotNodesDisplaced ==
  /\ \A p \in Requested :
       /\ p.NodeName \in NodeNames
       /\ p.NodeName = workflow.node
       /\ ClassOf(nodes[p.NodeName]) = "spot"
  /\ (workflow.event # NoEvent /\ ClassOf(workflow.event.new) # "spot")
       => ~WorkflowStarted /\ workflow.enumerated = <<>> /\ workflow.issued = <<>>

\* The notification that an on-demand node hosting a pod went from ready to
\* not ready has been handled: nothing was requested and the pod is there.
C13_Witness ==
  /\ workflow.event # NoEvent
  /\ ClassOf(workflow.event.new) = "on-demand"
  /\ Ready(workflow.event.old)
  /\ ~Ready(workflow.event.new)
  /\ PodsOnNode(clientset, workflow.event.new.Name) # {}
  /\ workflow.issued = <<>>
  /\ ~WorkflowStarted

(***************************************************************************)
(* C14  A displacement workflow starts only on a transition from ready to  *)
(* not ready: a notification in which the node was already not ready       *)
(* before the update starts no workflow.                                   *)
(***************************************************************************)
C14_OnlyOnReadyToNotReady ==
  WorkflowStarted => Ready(workflow.event.old) /\ ~Ready(workflow.event.new)

C16_PartialFailureIsolation ==
  LET n == Len(workflow.issued)
  IN /\ Len(workflow.enumerated) = n + Len(workflow.todo)
     /\ \A i \in 1..n : workflow.issued[i].pod = workflow.enumerated[i]
     /\ \A i \in 1..Len(workflow.todo) : workflow.todo[i] = workflow.enumerated[n + i]

\* The first of three requests failed, the second too, and the third pod
\* was evicted all the same.
C16_Witness ==
  /\ WorkflowDone
  /\ Len(workflow.issued) = 3
  /\ workflow.issued[1].err # ""
  /\ workflow.issued[2].err = "ServerTimeout"
  /\ workflow.issued[3].err = ""
  /\ workflow.issued[3].pod \notin pods

(***************************************************************************)
(* C17  Idempotent displacement: a request for a pod that is already gone  *)
(* (the API answers not found) is recorded as a success, and a pod is      *)
(* removed at most once.                                                   *)
(***************************************************************************)
C17_NotFoundIsSuccess ==
  \A i \in 1..Len(workflow.issued) :
     /\ workflow.issued[i].err \in {"", "NotFound"}
          => workflow.issued[i].logged = "Successfully evicted pod"
     /\ workflow.issued[i].err = "" => workflow.issued[i].pod \notin pods

MalformedRequestServed ==
  IF response.status = StatusOK
  THEN \E i \in 1..Len(response.args.Nodes) : response.args.Nodes[i].Name = NoNode
  ELSE \/ ~response.args.json
       \/ response.args.Pod = Nil
       \/ response.args.Nodes = Nil

ExplicitError == response.status \in {StatusBadRequest, StatusInternalServerError}

CompleteResult ==
  /\ response.status = StatusOK
  /\ response.verb = "prioritize" =>
       /\ Len(response.result) = Len(response.args.Nodes)
       /\ \A i \in 1..Len(response.result) :
            response.result[i].Host = response.args.Nodes[i].Name

C18_ResultOrExplicitError ==
  response # None =>
    /\ CompleteResult \/ ExplicitError
    /\ MalformedRequestServed => ExplicitError

(***************************************************************************)
(* C20  Workloads with more than one replica prefer spot nodes: for a pod  *)
(* of such a workload, a spot node scores at least as high as an on-demand *)
(* node that hosts the same number of the workload's units.                *)
(***************************************************************************)
C20_ManyReplicasPreferSpot ==
  (PrioritizeDone /\ response.workloadReplicas > 1) =>
    \A i, j \in 1..Len(response.args.Nodes) :
       LET a == response.args.Nodes[i]
           b == response.args.Nodes[j]
       IN (/\ ClassOf(a) = "spot"
           /\ ClassOf(b) = "on-demand"
           /\ OwnUnitsOn(response.args.Pod, a) = OwnUnitsOn(response.args.Pod, b))
            => response.result[i].Score >= response.result[j].Score

(***************************************************************************)
(* C21  The spread term counts only units of the pending pod's own         *)
(* workload: pods of another workload (or of none) bound to a node never   *)
(* lower the node's score, whatever their namespace and labels; the scores *)
(* are those of the same cluster without such pods.                        *)
(***************************************************************************)
OwnUnits(pod) ==
  {q \in pods : OwningWorkloads(q) \cap OwningWorkloads(pod) # {}}

C21_OnlyOwnUnitsCount ==
  PrioritizeDone =>
    Prioritize([clientset EXCEPT !.Pods = OwnUnits(response.args.Pod)],
               response.args) = response.result

(***************************************************************************)
(* C22  Every score of Prioritize lies in 0..100, and a node that Filter   *)
(* returns for a pod with replica count 1 gets a strictly positive score.  *)
(***************************************************************************)
C22_ScoresInRange ==
  PrioritizeDone =>
    \A i \in 1..Len(response.result) :
       /\ response.result[i].Score >= 0
       /\ response.result[i].Score <= 100
       /\ (/\ response.workloadReplicas = 1
           /\ response.args.Nodes[i] \in Range(Filter(clientset, response.args)))
            => response.result[i].Score > 0

(***************************************************************************)
(* C28  Filter and Prioritize classify a pod consistently for every        *)
(* replica count the resolver returns, 0 included: Filter applies the      *)
(* single-replica rule (ready on-demand nodes only) exactly when           *)
(* Prioritize subtracts no spread term.  Stated for requests that tell the *)
(* rules apart: a ready spot node among the candidates, and a candidate    *)
(* that hosts pods the spread term counts.                                 *)
(***************************************************************************)
SingleReplicaRuleApplied(args) ==
  LET onDemandAndReady(node) == Ready(node) /\ ClassOf(node) = "on-demand"
  IN Filter(clientset, args) = SelectSeq(args.Nodes, onDemandAndReady)

SpreadTermApplied(args) ==
  \E i \in 1..Len(args.Nodes) :
     Prioritize(clientset, args)[i].Score # BaseScore(args.Nodes[i])

TellsRulesApart(args) ==
  /\ \E i \in 1..Len(args.Nodes) :
        Ready(args.Nodes[i]) /\ ClassOf(args.Nodes[i]) = "spot"
  /\ \E i \in 1..Len(args.Nodes) : SpreadTerm(2, args.Pod, args.Nodes[i]) > 0

C28_ConsistentClassification ==
  ((FilterDone \/ PrioritizeDone) /\ TellsRulesApart(response.args)) =>
    (SingleReplicaRuleApplied(response.args) <=> ~SpreadTermApplied(response.args))

(***************************************************************************)
(* C30: when listing the pods of one node fails during Prioritize, the     *)
(* result still has one score per candidate, in the candidates' order; the *)
(* node whose list failed is scored with a spread term of 0, i.e. with its *)
(* base score; every other node's score is what it is without the failure. *)
(***************************************************************************)
C30_ListFailureIsLocal ==
  PrioritizeDone =>
    LET args == response.args
        allLists == Prioritize([clientset EXCEPT !.listFails = {}], args)
    IN /\ Len(response.result) = Len(args.Nodes)
       /\ \A i \in 1..Len(args.Nodes) :
            /\ response.result[i].Host = args.Nodes[i].Name
            /\ IF args.Nodes[i].Name \in listFails
               THEN response.result[i].Score = BaseScore(args.Nodes[i])
               ELSE response.result[i].Score = allLists[i].Score

\* Prioritize has answered for a workload of several replicas and two
\* candidates that both host pods of it; the list failed for one of them only.
C30_Witness ==
  /\ PrioritizeDone
  /\ response.workloadReplicas > 1
  /\ \E i, j \in 1..Len(response.args.Nodes) :
       /\ response.args.Nodes[i].Name \in listFails
       /\ response.args.Nodes[j].Name \notin listFails
       /\ SpreadTerm(response.workloadReplicas, response.args.Pod, response.args.Nodes[i]) > 0
       /\ SpreadTerm(response.workloadReplicas, response.args.Pod, response.args.Nodes[j]) > 0
       /\ response.result[i].Score = BaseScore(response.args.Nodes[i])
       /\ response.result[j].Score < BaseScore(response.args.Nodes[j])

(***************************************************************************)
(* C29: for a pod whose workload has more than one replica, Prioritize     *)
(* scores a spot node S strictly higher than an on-demand node D exactly   *)
(* when D hosts more than 10 more of the workload's units than S; when the *)
(* difference is 10 or less the on-demand node scores at least as high.    *)
(***************************************************************************)
C29_SpotWinsBeyondMargin ==
  (PrioritizeDone /\ response.workloadReplicas > 1) =>
    \A i, j \in 1..Len(response.args.Nodes) :
       LET S == response.args.Nodes[i]
           D == response.args.Nodes[j]
       IN (ClassOf(S) = "spot" /\ ClassOf(D) = "on-demand") =>
            /\ response.result[i].Score > response.result[j].Score
                 <=> OwnUnitsOn(response.args.Pod, D) - OwnUnitsOn(response.args.Pod, S) > 10
            /\ OwnUnitsOn(response.args.Pod, D) - OwnUnitsOn(response.args.Pod, S) <= 10
                 => response.result[j].Score >= response.result[i].Score

(***************************************************************************)
(* C23: transitions of one node are serialized: a notification for a spot  *)
(* node that is terminating is never taken up while a displacement         *)
(* workflow for the same node is still in progress, whatever the order of  *)
(* the notifications and however often one is delivered again.             *)
(***************************************************************************)
InProgress(n) == workflow.todo # <<>> /\ workflow.node = n

Displaces(event) == isSpotNode(event.new) /\ isTerminating(event.new)

C23_SameNodeSerialized ==
  [][(/\ events # <<>>
      /\ events' = Tail(events)
      /\ Displaces(Head(events)))
       => ~InProgress(Head(events).new.Name)]_vars

\* A workflow for a node is in progress, with requests still to issue,
\* while a second notification for the same terminating node is waiting.
C23_Witness ==
  /\ events # <<>>
  /\ Displaces(Head(events))
  /\ InProgress(Head(events).new.Name)
  /\ workflow.issued # <<>>

(***************************************************************************)
(* C24: no head-of-line blocking across nodes: while the workflow for one  *)
(* node still has a request outstanding, a waiting notification of the     *)
(* termination of a different spot node can be taken up by the controller. *)
(***************************************************************************)
C24_NoHeadOfLineBlocking ==
  (/\ events # <<>>
   /\ Displaces(Head(events))
   /\ workflow.todo # <<>>
   /\ workflow.node # Head(events).new.Name)
    => ENABLED UpdateFunc

(***************************************************************************)
(* C25: every displacement workflow ends with all enumerated pods          *)
(* processed, and a request that failed for a transient reason has been    *)
(* retried at least once for that pod before the workflow is over.         *)
(***************************************************************************)
RequestsFor(pod) == {i \in 1..Len(workflow.issued) : workflow.issued[i].pod = pod}

C25_TransientFailureRetried ==
  WorkflowDone =>
    /\ Range(workflow.enumerated) \subseteq Requested
    /\ \A i \in 1..Len(workflow.issued) :
         workflow.issued[i].err = "ServerTimeout"
           => \E j \in RequestsFor(workflow.issued[i].pod) : j > i

(***************************************************************************)
(* C26: every Filter and Prioritize call eventually returns, also when a   *)
(* lookup of the resolver or a pod list is never answered: a call that has *)
(* been accepted leads to its response being written.                      *)
(***************************************************************************)
Running(i) == inflight[i].pc \in {"running", "waiting"}

Returned(i) == inflight[i].pc = "returned"

C26_EveryCallReturns == \A i \in Slots : Running(i) ~> Returned(i)

(***************************************************************************)
(* C27: overlapping calls are independent: whatever calls are in flight, a *)
(* call's response is the one Filter or Prioritize gives for the call's    *)
(* own pod and candidates on the cluster as it is, and no step of a call   *)
(* changes a node, a pod or a workload.                                    *)
(***************************************************************************)
Alone(call) ==
  IF call.verb = "filter"
  THEN Filter(clientset, call.args)
  ELSE Prioritize(clientset, call.args)

ClusterState == <<nodes, pods, replicaSets, deployments, statefulSets>>

====
